---- MODULE Spec2Model ----
(***************************************************************************)
(* ng-secure-fetch: key lifecycle (APP_INITIALIZER), endpoint pattern      *)
(* matcher and request interceptor.                                        *)
(*                                                                         *)
(* Strings are sequences of one-character strings, so that the string      *)
(* operations of the source (includes, endsWith, slice, replace, RegExp)   *)
(* are computed character by character.                                    *)
(***************************************************************************)
EXTENDS Integers, Sequences, FiniteSets, TLC

(***************************************************************************)
(* Bounds of the model.                                                    *)
(***************************************************************************)
MaxUrlLen == 3
MaxPatPieces == 3
MaxSkipPieces == 1

(***************************************************************************)
(* JavaScript string primitives.                                           *)
(***************************************************************************)
RECURSIVE Concat(_)
Concat(ss) == IF ss = <<>> THEN <<>> ELSE Head(ss) \o Concat(Tail(ss))

RECURSIVE SeqsUpTo(_, _)
SeqsUpTo(S, n) ==
  IF n = 0 THEN {<<>>}
  ELSE LET prev == SeqsUpTo(S, n - 1)
       IN  prev \cup {Append(s, x) : s \in prev, x \in S}

\* String.prototype.startsWith at a position
MatchesAt(s, sub, i) ==
  /\ i >= 1
  /\ i + Len(sub) - 1 <= Len(s)
  /\ SubSeq(s, i, i + Len(sub) - 1) = sub

\* String.prototype.includes
Includes(s, sub) == \E i \in 1..(Len(s) + 1) : MatchesAt(s, sub, i)

\* String.prototype.endsWith
EndsWith(s, suf) == Len(s) >= Len(suf) /\ MatchesAt(s, suf, Len(s) - Len(suf) + 1)

\* String.prototype.slice(0, -n)
SliceEnd(s, n) == IF Len(s) >= n THEN SubSeq(s, 1, Len(s) - n) ELSE <<>>

Star == <<"*">>
SlashStar == <<"/", "*">>
Placeholder == <<"{", "i", "g", "n", "o", "r", "e", "}">>

(***************************************************************************)
(* The regular expression the matcher builds.                              *)
(***************************************************************************)
\* the character class of /[.*+?^${}()|[\]\\]/
RegexMeta == {".", "*", "+", "?", "^", "$", "{", "}", "(", ")", "|", "[", "]", "\\"}

\* pattern.replace(/[.*+?^${}()|[\]\\]/g, '\\$&')
RECURSIVE EscapeRegex(_)
EscapeRegex(s) ==
  IF s = <<>> THEN <<>>
  ELSE (IF Head(s) \in RegexMeta THEN <<"\\", Head(s)>> ELSE <<Head(s)>>)
       \o EscapeRegex(Tail(s))

\* the text /\\{ignore\\}/ matches: the escaped placeholder
EscapedPlaceholder == <<"\\", "{", "i", "g", "n", "o", "r", "e", "\\", "}">>
NotSlashPlus == <<"[", "^", "/", "]", "+">>

\* .replace(/\\{ignore\\}/g, '[^/]+'): every occurrence, left to right
RECURSIVE ReplaceIgnore(_)
ReplaceIgnore(s) ==
  IF s = <<>> THEN <<>>
  ELSE IF MatchesAt(s, EscapedPlaceholder, 1)
       THEN NotSlashPlus \o ReplaceIgnore(SubSeq(s, Len(EscapedPlaceholder) + 1, Len(s)))
       ELSE <<Head(s)>> \o ReplaceIgnore(Tail(s))

\* new RegExp(regexPattern): the source text parsed into atoms. The texts the
\* matcher builds hold escaped characters, [^/]+ and plain characters only.
RECURSIVE RegExpCompile(_)
RegExpCompile(src) ==
  IF src = <<>> THEN <<>>
  ELSE IF Head(src) = "\\" /\ Len(src) >= 2
       THEN <<[kind |-> "char", c |-> src[2]]>> \o RegExpCompile(SubSeq(src, 3, Len(src)))
  ELSE IF MatchesAt(src, NotSlashPlus, 1)
       THEN <<[kind |-> "notslash+", c |-> "/"]>>
            \o RegExpCompile(SubSeq(src, Len(NotSlashPlus) + 1, Len(src)))
  ELSE <<[kind |-> "char", c |-> Head(src)]>> \o RegExpCompile(Tail(src))

\* RegExpMatchFrom with [^/]* in place of [^/]+: a run may be empty
RECURSIVE RegExpMatchFrom_EmptyRun(_, _, _)
RegExpMatchFrom_EmptyRun(atoms, s, i) ==
  IF atoms = <<>> THEN TRUE
  ELSE IF Head(atoms).kind = "char"
       THEN /\ i <= Len(s)
            /\ s[i] = Head(atoms).c
            /\ RegExpMatchFrom_EmptyRun(Tail(atoms), s, i + 1)
  ELSE \E n \in 0..(Len(s) - i + 1) :
         /\ \A j \in i..(i + n - 1) : s[j] # "/"
         /\ RegExpMatchFrom_EmptyRun(Tail(atoms), s, i + n)

\* the atoms match s from position i on (backtracking over the length of a run)
RECURSIVE RegExpMatchFrom(_, _, _)
RegExpMatchFrom(atoms, s, i) ==
  IF atoms = <<>> THEN TRUE
  ELSE IF Head(atoms).kind = "char"
       THEN /\ i <= Len(s)
            /\ s[i] = Head(atoms).c
            /\ RegExpMatchFrom(Tail(atoms), s, i + 1)
  ELSE \E n \in 1..(Len(s) - i + 1) :
         /\ \A j \in i..(i + n - 1) : s[j] # "/"
         /\ RegExpMatchFrom(Tail(atoms), s, i + n)

\* regex.test(url): a search, not a full match
RegExpTest(atoms, s) == \E i \in 1..(Len(s) + 1) : RegExpMatchFrom(atoms, s, i)

(***************************************************************************)
(* CryptoService.matchesPattern                                            *)
(***************************************************************************)
\* the callback of skipPatterns.some(...)
SkipPatternMatches(u, pattern) ==
  IF pattern = Star THEN TRUE
  ELSE IF EndsWith(pattern, SlashStar) THEN Includes(u, SliceEnd(pattern, 2))
  ELSE IF Includes(pattern, Placeholder)
       THEN RegExpTest(RegExpCompile(ReplaceIgnore(EscapeRegex(pattern))), u)
  ELSE Includes(u, pattern)

\* IncludePatternMatches with the glob's slash kept: slice(0, -1)
IncludePatternMatches_KeepSlash(u, pattern) ==
  IF pattern = Star THEN TRUE
  ELSE IF EndsWith(pattern, SlashStar) THEN Includes(u, SliceEnd(pattern, 1))
  ELSE IF Includes(pattern, Placeholder)
       THEN RegExpTest(RegExpCompile(ReplaceIgnore(EscapeRegex(pattern))), u)
  ELSE Includes(u, pattern)

\* the callback of patterns.some(...)
IncludePatternMatches(u, pattern) ==
  IF pattern = Star THEN TRUE
  ELSE IF EndsWith(pattern, SlashStar) THEN Includes(u, SliceEnd(pattern, 2))
  ELSE IF Includes(pattern, Placeholder)
       THEN RegExpTest(RegExpCompile(ReplaceIgnore(EscapeRegex(pattern))), u)
  ELSE Includes(u, pattern)

\* skipPatterns && skipPatterns.length > 0 && skipPatterns.some(...)
ShouldSkip(u, skips) ==
  /\ Len(skips) > 0
  /\ \E i \in 1..Len(skips) : SkipPatternMatches(u, skips[i])

\* matchesPattern with the include patterns consulted before the skip patterns
matchesPattern_IncludeFirst(u, pats, skips) ==
  IF \E i \in 1..Len(pats) : pats[i] = Star THEN TRUE
  ELSE IF ShouldSkip(u, skips) THEN FALSE
  ELSE \E i \in 1..Len(pats) : IncludePatternMatches(u, pats[i])

matchesPattern(u, pats, skips) ==
  IF ShouldSkip(u, skips) THEN FALSE
  ELSE \E i \in 1..Len(pats) : IncludePatternMatches(u, pats[i])

(***************************************************************************)
(* Optional configuration values, and JavaScript's `x || fallback`.        *)
(***************************************************************************)
Some(v) == [defined |-> TRUE, value |-> v]
NoString == [defined |-> FALSE, value |-> <<>>]
NoNumber == [defined |-> FALSE, value |-> 0]

\* x || fallback for a string: undefined and '' are falsy
StrOr(x, fallback) == IF x.defined /\ x.value # <<>> THEN x.value ELSE fallback
\* x || fallback for a number: undefined and 0 are falsy
NumOr(x, fallback) == IF x.defined /\ x.value # 0 THEN x.value ELSE fallback

(***************************************************************************)
(* CryptoService.verifyPublicKeyHash                                       *)
(***************************************************************************)
\* PEM texts. pemX is a text that is not a Base64 SPKI key.
Pems == {"pemA", "pemB", "pemC", "pemX"}

\* crypto.subtle.digest('SHA-256', ...), shortened to two bytes per text
Sha256(pem) ==
  CASE pem = "pemA" -> <<171, 5>>
    [] pem = "pemB" -> <<0, 254>>
    [] pem = "pemC" -> <<10, 11>>
    [] OTHER        -> <<18, 52>>

HexDigits == <<"0", "1", "2", "3", "4", "5", "6", "7", "8", "9", "a", "b", "c", "d", "e", "f">>

\* Number.prototype.toString(16)
RECURSIVE ToString16(_)
ToString16(n) ==
  IF n < 16 THEN <<HexDigits[n + 1]>>
  ELSE ToString16(n \div 16) \o <<HexDigits[(n % 16) + 1]>>

\* String.prototype.padStart(width, c)
RECURSIVE PadStart(_, _, _)
PadStart(str, width, c) == IF Len(str) >= width THEN str ELSE PadStart(<<c>> \o str, width, c)

\* HashHex without padStart
RECURSIVE HashHex_NoPad(_)
HashHex_NoPad(bytes) ==
  IF bytes = <<>> THEN <<>>
  ELSE ToString16(Head(bytes)) \o HashHex_NoPad(Tail(bytes))

\* hashArray.map(b => b.toString(16).padStart(2, '0')).join('')
RECURSIVE HashHex(_)
HashHex(bytes) ==
  IF bytes = <<>> THEN <<>>
  ELSE PadStart(ToString16(Head(bytes)), 2, "0") \o HashHex(Tail(bytes))

\* 'REPLACE_WITH_YOUR_PUBLIC_KEY_HASH'
HashPlaceholder ==
  << "R","E","P","L","A","C","E","_","W","I","T","H","_","Y","O","U","R","_",
     "P","U","B","L","I","C","_","K","E","Y","_","H","A","S","H" >>

\* verifyPublicKeyHash with the unpinned case accepted
verifyPublicKeyHash_AcceptUnpinned(pem, configured) ==
  LET expectedHash == StrOr(configured, HashPlaceholder)
      hashHex == HashHex(Sha256(pem))
  IN  IF expectedHash = HashPlaceholder THEN TRUE
      ELSE hashHex = expectedHash

\* The digest of a string does not throw, so the catch branch is not taken.
verifyPublicKeyHash(pem, configured) ==
  LET expectedHash == StrOr(configured, HashPlaceholder)
      hashHex == HashHex(Sha256(pem))
  IN  IF expectedHash = HashPlaceholder THEN FALSE
      ELSE hashHex = expectedHash

(***************************************************************************)
(* State.                                                                  *)
(***************************************************************************)
VARIABLES
  url,            \* matcher call: the url argument
  patterns,       \* matcher call: the include patterns
  skipPatterns,   \* matcher call: the skip patterns
  matchPhase,     \* "input" before the call, "returned" after it
  matched,        \* matcher call: the value returned
  pemKey,         \* verifyPublicKeyHash call: the pemKey argument
  expectedPublicKeyHash, \* verifyPublicKeyHash call: config.expectedPublicKeyHash
  hashPhase,      \* "input" before the call, "returned" after it
  isValid,        \* verifyPublicKeyHash call: the value the promise resolves to
  config,         \* SECURITY_CONFIG
  pc,             \* where the initializer stands
  branch,         \* which branch of the initializer runs: direct, cached, stale, miss
  pemArg,         \* the pemKey argument of validateAndSetPublicKey
  publicKey,      \* CryptoService.publicKey (the signal)
  sessionStorage, \* the entry under STORAGE_KEY
  storageMode,    \* whether the browser lets sessionStorage be used
  soFar,          \* retry(): failures counted so far
  attempts,       \* http.get subscriptions made by fetchPublicKeyFromAPI
  delays,         \* retry(): the timers started, in milliseconds
  response,       \* what the last key fetch delivered
  error,          \* the error the initializer's observable ended with
  cacheReads,     \* calls of getCachedPemKey made by the initializer
  signals,        \* what the initializer's observable has notified, in order
  pending,        \* the request the encryption interceptor is sealing
  forwarded,      \* the request handed to next() and not yet answered
  generated,      \* AES key and IV pairs generated so far
  used,           \* the pairs whose wrapped form went out in request headers
  opening,        \* the answer the decryption interceptor is decrypting
  delivered,      \* what the decryption interceptor handed to the caller
  payload,        \* encryptPayload call: the text of the payload's string field
  padding,        \* the random padding generated for the call
  cipher,         \* the AES-GCM ciphertext, with the key and IV it was made under
  opened,         \* what decryptResponsePayload settled with
  sealPhase       \* "input", then "sealed", then "opened"

matchVars == <<url, patterns, skipPatterns, matchPhase, matched>>
hashVars == <<pemKey, expectedPublicKeyHash, hashPhase, isValid>>
lifeVars == <<config, pc, branch, pemArg, publicKey, sessionStorage, storageMode,
              soFar, attempts, delays, response, error, cacheReads, signals>>
reqVars == <<pending, forwarded, generated, used, opening, delivered>>
sealVars == <<payload, padding, cipher, opened, sealPhase>>
vars == <<matchVars, hashVars, lifeVars, reqVars, sealVars>>

MatchIdle ==
  /\ url = <<>> /\ patterns = <<>> /\ skipPatterns = <<>>
  /\ matchPhase = "idle" /\ matched = FALSE
HashIdle ==
  /\ pemKey = "pemA" /\ expectedPublicKeyHash = NoString
  /\ hashPhase = "idle" /\ isValid = FALSE

(***************************************************************************)
(* The envelope: encryptPayload and decryptResponsePayload on texts.       *)
(***************************************************************************)
MaxValueLen == 3

Separator == <<"|", "|">>

\* JSON.stringify of the payload { a: value }: the text of the field between the
\* delimiters of the object
Stringify(value) == <<"{">> \o value \o <<"}">>

\* the JSON text null
NullText == <<"n">>

\* JSON.parse: an object text gives the payload back, the text null gives null,
\* any other text throws a SyntaxError
JsonParse(text) ==
  IF text = NullText
  THEN [state |-> "resolved", kind |-> "null", value |-> <<>>]
  ELSE IF /\ Len(text) >= 2
          /\ text[1] = "{"
          /\ text[Len(text)] = "}"
          /\ \A i \in 2..(Len(text) - 1) : text[i] \notin {"{", "}"}
  THEN [state |-> "resolved", kind |-> "object", value |-> SubSeq(text, 2, Len(text) - 1)]
  ELSE [state |-> "rejected", kind |-> "SyntaxError", value |-> <<>>]

\* const [actualData] = text.split('||'): the text before the first separator,
\* the whole text when there is none
RECURSIVE FirstPart(_)
FirstPart(text) ==
  IF text = <<>> \/ MatchesAt(text, Separator, 1)
  THEN <<>>
  ELSE <<Head(text)>> \o FirstPart(Tail(text))

\* crypto.subtle.encrypt({ name: 'AES-GCM', iv }, aesKey, data), Base64 encoded:
\* the ciphertext with its authentication tag; flipped holds the bits of it that
\* were changed since
AesGcmEncrypt(text, key, iv) ==
  [key |-> key, iv |-> iv, text |-> text, flipped |-> {}]

\* AesGcmDecrypt without the authentication tag: changed bits go unnoticed
AesGcmDecrypt_Unauthenticated(c, key, iv) ==
  IF c.key = key /\ c.iv = iv
  THEN [state |-> "resolved", text |-> c.text]
  ELSE [state |-> "rejected", text |-> <<>>]

\* crypto.subtle.decrypt of the Base64 decoded text: the plaintext when the tag
\* verifies, that is under the key and IV of the encryption and with no bit of
\* the ciphertext changed; a rejection (OperationError) otherwise
AesGcmDecrypt(c, key, iv) ==
  IF c.key = key /\ c.iv = iv /\ c.flipped = {}
  THEN [state |-> "resolved", text |-> c.text]
  ELSE [state |-> "rejected", text |-> <<>>]

\* encryptPayload up to encryptedData: `${JSON.stringify(payload)}||${padding}`
encryptPayload(value, pad, key, iv) ==
  AesGcmEncrypt(Stringify(value) \o Separator \o pad, key, iv)

\* decryptResponsePayload
decryptResponsePayload(c, key, iv) ==
  LET decrypted == AesGcmDecrypt(c, key, iv) IN
  IF decrypted.state = "rejected"
  THEN [state |-> "rejected", kind |-> "OperationError", value |-> <<>>]
  ELSE JsonParse(FirstPart(decrypted.text))

NoCipher == [key |-> 0, iv |-> 0, text |-> <<>>, flipped |-> {}]
NoResult == [state |-> "pending", kind |-> "none", value |-> <<>>,
             key |-> 0, iv |-> 0]

SealIdle ==
  /\ payload = <<>> /\ padding = <<>>
  /\ cipher = NoCipher /\ opened = NoResult
  /\ sealPhase = "idle"

(***************************************************************************)
(* Configuration, storage and requests of the key lifecycle.               *)
(***************************************************************************)
MaxRetries == 2
DefaultRetries == 3

NoPem == ""                    \* undefined, null or '' (all falsy)
NoUrl == <<>>
NoKey == <<>>                  \* the signal's initial null
NoList == [defined |-> FALSE, value |-> <<>>]

KeyEndpoint == <<"/", "k">>
UrlPlain == <<"/", "a", "/", "b">>
UrlPublic == <<"/", "a", "/", "p">>

\* crypto.subtle.importKey('spki', atob(...)): the handle of an importable text
Importable(pem) == pem \in Pems \ {"pemX"}
CryptoKeyOf(pem) == <<"spki", pem>>

PatternConfigs ==
  { [include |-> NoList, skip |-> NoList],
    [include |-> Some(<<>>), skip |-> NoList],
    [include |-> Some(<<<<"/", "a", "/", "*">>>>), skip |-> Some(<<UrlPublic>>)] }

Configs ==
  { [ enableEncryption |-> e, publicKey |-> k, publicKeyEndpoint |-> ep,
      expectedPublicKeyHash |-> h, publicKeyFetchRetries |-> r,
      encryptDecryptForEndpoints |-> pc0.include,
      skipEncryptDecryptForEndpoints |-> pc0.skip ] :
      e \in {"true", "false", "undefined"},
      k \in {NoPem, "pemA", "pemX"},
      ep \in {NoUrl, KeyEndpoint},
      h \in {NoString, Some(<<"a", "b", "0", "5">>), Some(<<"1", "2", "3", "4">>)},
      r \in {NoNumber} \cup {Some(n) : n \in 0..MaxRetries},
      pc0 \in PatternConfigs }

MaxSeals == 2

NoBody == [kind |-> "null", fields |-> {}]
TextBody == [kind |-> "string", fields |-> {}]
Payloads == { [kind |-> "object", fields |-> {<<"a", "v1">>}],
              [kind |-> "object", fields |-> {<<"d", "v2">>}] }

Methods == {"GET", "POST", "PUT", "PATCH", "DELETE", "HEAD", "OPTIONS"}

\* the caller's own Content-Type header: set on an object body
ContentTypeOf(body) == IF body.kind = "object" THEN "application/json" ELSE "unset"

\* a GET carries no body; a string body and the skip-listed url are followed on
\* POST and DELETE, the payload with a field named d on POST
Requests ==
  { r \in [ method : Methods,
            url : {UrlPlain, UrlPublic, KeyEndpoint},
            body : {NoBody, TextBody} \cup Payloads,
            contentType : {"unset", "application/json"} ] :
      /\ r.contentType = ContentTypeOf(r.body)
      /\ r.method = "GET" => r.body = NoBody
      /\ r.method \notin {"GET", "POST", "DELETE"} =>
           (r.body # TextBody /\ r.url # UrlPublic)
      /\ r.method # "POST" => r.body.fields # {<<"d", "v2">>} }

NoReq == [method |-> "none", url |-> <<>>, body |-> NoBody, contentType |-> "unset"]
NoRequest == [req |-> NoReq, key |-> NoKey, nonce |-> 0]
NoForward ==
  [ method |-> "none", url |-> <<>>, body |-> NoBody, aesKeyHeader |-> "unset",
    ivHeader |-> "unset", contentType |-> "unset", nonce |-> 0, during |-> "none",
    given |-> NoReq ]

\* what the transport can answer: an HttpResponse, an HttpErrorResponse or
\* another HttpEvent; the raw key and IV headers present or not; the body (the
\* error's error field) empty, or Base64 text that decrypts to a JSON object
\* (among them one with a field named status), that decrypts to the JSON text
\* null, or that does not decrypt
EventBodies == {"empty", "sealed-object", "sealed-status", "sealed-null", "garbage"}
Events ==
  { e \in [ kind : {"response", "error", "other"},
            keyHeader : {"absent", "raw-key"},
            ivHeader : {"absent", "raw-iv"},
            body : EventBodies ] :
      /\ e.kind = "other" =>
           (e.keyHeader = "absent" /\ e.ivHeader = "absent" /\ e.body = "empty")
      /\ (e.keyHeader = "absent" \/ e.ivHeader = "absent") =>
           e.body \in {"empty", "sealed-object"}
      /\ e.body = "sealed-status" => e.kind = "error" }

\* the status and status text of an answer
StatusOf(event) ==
  CASE event.kind = "response" -> "200"
    [] event.kind = "error" -> "400"
    [] OTHER -> "none"
StatusTextOf(event) ==
  CASE event.kind = "response" -> "OK"
    [] event.kind = "error" -> "Bad Request"
    [] OTHER -> "none"

NoEvent == [kind |-> "none", keyHeader |-> "absent", ivHeader |-> "absent", body |-> "empty"]
NoOpening == [url |-> <<>>, event |-> NoEvent]
NoDelivery ==
  [ url |-> <<>>, event |-> NoEvent, kind |-> "none", body |-> "empty",
    status |-> "none", statusText |-> "none", top |-> {}, attempted |-> FALSE ]

LifeIdle ==
  /\ config = [ enableEncryption |-> "false", publicKey |-> NoPem,
                publicKeyEndpoint |-> NoUrl, expectedPublicKeyHash |-> NoString,
                publicKeyFetchRetries |-> NoNumber,
                encryptDecryptForEndpoints |-> NoList,
                skipEncryptDecryptForEndpoints |-> NoList ]
  /\ pc = "idle" /\ branch = "none" /\ pemArg = NoPem /\ publicKey = NoKey
  /\ sessionStorage = NoPem /\ storageMode = "ok"
  /\ soFar = 0 /\ attempts = 0 /\ delays = <<>> /\ response = "none" /\ error = "none"
  /\ cacheReads = 0 /\ signals = <<>>
  /\ pending = NoRequest /\ forwarded = NoForward
  /\ generated = 0 /\ used = {}
  /\ opening = NoOpening /\ delivered = NoDelivery

(***************************************************************************)
(* CryptoService: the key slot and the cache.                              *)
(***************************************************************************)
\* sessionStorage throws on every access when the browser denies storage,
\* setItem throws when the quota is exceeded, and setItem and removeItem throw
\* when the store only lets itself be read.
StorageModes == {"ok", "quota", "denied", "readonly"}

\* getCachedPemKey: a storage exception reads as null
getCachedPemKey == IF storageMode = "denied" THEN NoPem ELSE sessionStorage

\* clearCachedPublicKey with the removal left out
clearCachedPublicKey_Noop == UNCHANGED sessionStorage

\* clearCachedPublicKey: removeItem, a storage exception is logged and swallowed
clearCachedPublicKey ==
  sessionStorage' = IF storageMode \in {"denied", "readonly"} THEN sessionStorage ELSE NoPem

\* setPublicKey without the cache write
setPublicKey_NoCache(key, pem) ==
  /\ publicKey' = key
  /\ UNCHANGED sessionStorage

\* setPublicKey: set the signal, then cache the PEM; a storage exception is
\* logged and swallowed
setPublicKey(key, pem) ==
  /\ publicKey' = key
  /\ sessionStorage' = IF pem # NoPem /\ storageMode = "ok" THEN pem ELSE sessionStorage

(***************************************************************************)
(* The initializer.                                                        *)
(***************************************************************************)
\* Pow2 growing by one per retry
Pow2_Linear(n) == n + 1

RECURSIVE Pow2(_)
Pow2(n) == IF n <= 0 THEN 1 ELSE 2 * Pow2(n - 1)

\* const retries = config.publicKeyFetchRetries || 3
Retries == NumOr(config.publicKeyFetchRetries, DefaultRetries)

\* http.get(...).pipe(retry(...)) is subscribed: one request goes out
FetchSubscribe ==
  /\ attempts' = attempts + 1
  /\ pc' = "fetching"

\* subscriber.next(); subscriber.complete()
Complete == signals' = signals \o <<"next", "complete">>

\* subscriber.error(err)
Fail(err) ==
  /\ pc' = "Failed"
  /\ error' = err
  /\ signals' = Append(signals, "error")

\* fetchPublicKeyFromAPI(...) is called: retry() starts counting from 0
fetchPublicKeyFromAPI ==
  /\ FetchSubscribe
  /\ soFar' = 0
  /\ UNCHANGED <<delays, response, error, pemArg, publicKey, signals>>

\* InitializerDisabled taken whenever enableEncryption is not true
InitializerDisabled_Falsy ==
  /\ pc = "Uninitialized"
  /\ config.enableEncryption # "true"
  /\ pc' = "Disabled"
  /\ Complete
  /\ UNCHANGED <<config, branch, pemArg, publicKey, sessionStorage, storageMode,
                 soFar, attempts, delays, response, error, cacheReads>>

\* config.enableEncryption === false
InitializerDisabled ==
  /\ pc = "Uninitialized"
  /\ config.enableEncryption = "false"
  /\ pc' = "Disabled"
  /\ Complete
  /\ UNCHANGED <<config, branch, pemArg, publicKey, sessionStorage, storageMode,
                 soFar, attempts, delays, response, error, cacheReads>>

\* InitializerDirectKey with a cached PEM preferred to the configured one
InitializerDirectKey_CacheFirst ==
  /\ pc = "Uninitialized"
  /\ config.enableEncryption # "false"
  /\ config.publicKey # NoPem
  /\ pc' = "verify"
  /\ branch' = "direct"
  /\ cacheReads' = cacheReads + 1
  /\ pemArg' = IF getCachedPemKey # NoPem THEN getCachedPemKey ELSE config.publicKey
  /\ UNCHANGED <<config, publicKey, sessionStorage, storageMode,
                 soFar, attempts, delays, response, error, signals>>

\* InitializerDirectKey with the key made active before it is validated
InitializerDirectKey_KeyFirst ==
  /\ pc = "Uninitialized"
  /\ config.enableEncryption # "false"
  /\ config.publicKey # NoPem
  /\ pc' = "verify"
  /\ branch' = "direct"
  /\ pemArg' = config.publicKey
  /\ publicKey' = CryptoKeyOf(config.publicKey)
  /\ UNCHANGED <<config, sessionStorage, storageMode,
                 soFar, attempts, delays, response, error, cacheReads, signals>>

\* config.publicKey is given: validateAndSetPublicKey(config.publicKey)
InitializerDirectKey ==
  /\ pc = "Uninitialized"
  /\ config.enableEncryption # "false"
  /\ config.publicKey # NoPem
  /\ pc' = "verify"
  /\ branch' = "direct"
  /\ pemArg' = config.publicKey
  /\ UNCHANGED <<config, publicKey, sessionStorage, storageMode,
                 soFar, attempts, delays, response, error, cacheReads, signals>>

\* InitializerConfigError with the endpoint tested after the cache was read
InitializerConfigError_AfterCacheRead ==
  /\ pc = "Uninitialized"
  /\ config.enableEncryption # "false"
  /\ config.publicKey = NoPem
  /\ config.publicKeyEndpoint = NoUrl
  /\ cacheReads' = cacheReads + 1
  /\ Fail("publicKeyEndpoint or publicKey required")
  /\ UNCHANGED <<config, branch, pemArg, publicKey, sessionStorage, storageMode,
                 soFar, attempts, delays, response>>

\* neither publicKey nor publicKeyEndpoint
InitializerConfigError ==
  /\ pc = "Uninitialized"
  /\ config.enableEncryption # "false"
  /\ config.publicKey = NoPem
  /\ config.publicKeyEndpoint = NoUrl
  /\ Fail("publicKeyEndpoint or publicKey required")
  /\ UNCHANGED <<config, branch, pemArg, publicKey, sessionStorage, storageMode,
                 soFar, attempts, delays, response, cacheReads>>

\* InitializerCachedKey with the key fetch started next to the validation
InitializerCachedKey_AlsoFetches ==
  /\ pc = "Uninitialized"
  /\ config.enableEncryption # "false"
  /\ config.publicKey = NoPem
  /\ config.publicKeyEndpoint # NoUrl
  /\ getCachedPemKey # NoPem
  /\ pc' = "verify"
  /\ branch' = "cached"
  /\ pemArg' = getCachedPemKey
  /\ cacheReads' = cacheReads + 1
  /\ attempts' = attempts + 1
  /\ UNCHANGED <<config, publicKey, sessionStorage, storageMode,
                 soFar, delays, response, error, signals>>

\* a cached PEM is found: validateAndSetPublicKey(cachedPemKey)
InitializerCachedKey ==
  /\ pc = "Uninitialized"
  /\ config.enableEncryption # "false"
  /\ config.publicKey = NoPem
  /\ config.publicKeyEndpoint # NoUrl
  /\ getCachedPemKey # NoPem
  /\ pc' = "verify"
  /\ branch' = "cached"
  /\ pemArg' = getCachedPemKey
  /\ cacheReads' = cacheReads + 1
  /\ UNCHANGED <<config, publicKey, sessionStorage, storageMode,
                 soFar, attempts, delays, response, error, signals>>

\* InitializerCacheMiss with the exception of the cache read ending the run
InitializerCacheMiss_ReadThrows ==
  /\ pc = "Uninitialized"
  /\ config.enableEncryption # "false"
  /\ config.publicKey = NoPem
  /\ config.publicKeyEndpoint # NoUrl
  /\ getCachedPemKey = NoPem
  /\ cacheReads' = cacheReads + 1
  /\ IF storageMode = "denied"
     THEN /\ Fail("Cache read failed")
          /\ UNCHANGED <<branch, pemArg, publicKey, soFar, attempts, delays, response>>
     ELSE /\ branch' = "miss"
          /\ fetchPublicKeyFromAPI
  /\ UNCHANGED <<config, sessionStorage, storageMode>>

\* no cached PEM: fetchPublicKeyFromAPI
InitializerCacheMiss ==
  /\ pc = "Uninitialized"
  /\ config.enableEncryption # "false"
  /\ config.publicKey = NoPem
  /\ config.publicKeyEndpoint # NoUrl
  /\ getCachedPemKey = NoPem
  /\ branch' = "miss"
  /\ cacheReads' = cacheReads + 1
  /\ fetchPublicKeyFromAPI
  /\ UNCHANGED <<config, sessionStorage, storageMode>>

\* OnRejected with the cached key's rejection reported before the fetch starts
OnRejected_ErrorThenFetch(err) ==
  CASE branch = "cached" ->
         /\ clearCachedPublicKey
         /\ branch' = "stale"
         /\ FetchSubscribe
         /\ soFar' = 0
         /\ signals' = Append(signals, "error")
         /\ UNCHANGED <<delays, response, error, pemArg, publicKey>>
    [] OTHER ->
         /\ Fail(err)
         /\ UNCHANGED <<branch, pemArg, publicKey, sessionStorage, soFar, attempts,
                        delays, response>>

\* OnRejected with a rejected fetched key fed back to retry()
OnRejected_RetryFetched(err) ==
  CASE branch = "direct" ->
         /\ Fail(err)
         /\ UNCHANGED <<branch, pemArg, publicKey, sessionStorage, soFar, attempts,
                        delays, response>>
    [] branch = "cached" ->
         /\ clearCachedPublicKey
         /\ branch' = "stale"
         /\ fetchPublicKeyFromAPI
    [] OTHER ->
         /\ pc' = "backoff"
         /\ UNCHANGED <<branch, pemArg, publicKey, sessionStorage, soFar, attempts,
                        delays, response, error, signals>>

\* validateAndSetPublicKey rejects with err: what the caller's catch does
OnRejected(err) ==
  CASE branch = "direct" ->
         \* subscriber.error(err)
         /\ Fail(err)
         /\ UNCHANGED <<branch, pemArg, publicKey, sessionStorage, soFar, attempts,
                        delays, response>>
    [] branch = "cached" ->
         \* cache invalid: clear it and fetch a fresh key
         /\ clearCachedPublicKey
         /\ branch' = "stale"
         /\ fetchPublicKeyFromAPI
    [] OTHER ->
         \* inside switchMap, after retry(): catchError rethrows
         /\ Fail(err)
         /\ UNCHANGED <<branch, pemArg, publicKey, sessionStorage, soFar, attempts,
                        delays, response>>

\* VerifyHashResolved with the result of the verification ignored
VerifyHashResolved_Unchecked ==
  /\ pc = "verify"
  /\ pc' = "import"
  /\ UNCHANGED <<branch, pemArg, publicKey, sessionStorage, soFar, attempts,
                 delays, response, error, signals>>
  /\ UNCHANGED <<config, storageMode, cacheReads>>

\* await cryptoService.verifyPublicKeyHash(pemKey) resolves
VerifyHashResolved ==
  /\ pc = "verify"
  /\ IF verifyPublicKeyHash(pemArg, config.expectedPublicKeyHash)
     THEN /\ pc' = "import"
          /\ UNCHANGED <<branch, pemArg, publicKey, sessionStorage, soFar, attempts,
                         delays, response, error, signals>>
     ELSE OnRejected("Public key hash mismatch - possible MITM attack")
  /\ UNCHANGED <<config, storageMode, cacheReads>>

\* await cryptoService.importPublicKey(pemKey) settles; the caller's then runs
ImportKeySettled ==
  /\ pc = "import"
  /\ IF Importable(pemArg)
     THEN /\ setPublicKey(CryptoKeyOf(pemArg), pemArg)
          /\ pc' = "Ready"
          /\ Complete
          /\ UNCHANGED <<branch, pemArg, soFar, attempts, delays, response, error>>
     ELSE OnRejected("importKey failed")
  /\ UNCHANGED <<config, storageMode, cacheReads>>

\* retry({count}) with the failure counted before the comparison
RetryAllows_CountFirst(failures, count) == count > 0 /\ failures + 1 < count

\* retry({count}): count <= 0 is no retry at all; else soFar++ < count
RetryAllows(failures, count) == count > 0 /\ failures < count

\* the key fetch fails at the transport (an error or a non-2xx status)
FetchFails ==
  /\ pc = "fetching"
  /\ response' = "error"
  /\ soFar' = IF Retries > 0 THEN soFar + 1 ELSE soFar
  /\ IF RetryAllows(soFar, Retries)
     THEN \* delay(error, retryCount): timer(2^(retryCount - 1) * 1000)
          /\ delays' = Append(delays, Pow2(soFar' - 1) * 1000)
          /\ pc' = "backoff"
          /\ UNCHANGED <<error, signals>>
     ELSE /\ Fail("fetch failed")
          /\ UNCHANGED delays
  /\ UNCHANGED <<config, branch, pemArg, publicKey, sessionStorage, storageMode, attempts,
                 cacheReads>>

\* the timer of retry() fires: the source is subscribed again
RetryTimerFires ==
  /\ pc = "backoff"
  /\ FetchSubscribe
  /\ UNCHANGED <<config, branch, pemArg, publicKey, sessionStorage, storageMode,
                 soFar, delays, response, error, cacheReads, signals>>

\* a 2xx response arrives; header is the PEM under the configured header name
FetchSucceeds ==
  /\ pc = "fetching"
  /\ \E header \in Pems \cup {NoPem} :
       IF header = NoPem
       THEN /\ response' = "ok-noheader"
            /\ Fail("header not found")
            /\ UNCHANGED pemArg
       ELSE /\ response' = "ok"
            /\ pemArg' = header
            /\ pc' = "verify"
            /\ UNCHANGED <<error, signals>>
  /\ UNCHANGED <<config, branch, publicKey, sessionStorage, storageMode,
                 soFar, attempts, delays, cacheReads>>

(***************************************************************************)
(* encryptionInterceptor                                                   *)
(***************************************************************************)
\* EncryptPatterns with the default taken for an empty list as well
EncryptPatterns_EmptyIsDefault ==
  IF config.encryptDecryptForEndpoints.defined /\ config.encryptDecryptForEndpoints.value # <<>>
  THEN config.encryptDecryptForEndpoints.value ELSE <<Star>>

\* config?.encryptDecryptForEndpoints || ['*']: an empty array is truthy
EncryptPatterns ==
  IF config.encryptDecryptForEndpoints.defined
  THEN config.encryptDecryptForEndpoints.value ELSE <<Star>>

\* config?.skipEncryptDecryptForEndpoints (undefined is treated as no pattern)
ConfigSkipPatterns == config.skipEncryptDecryptForEndpoints.value

ShouldEncrypt(req) == matchesPattern(req.url, EncryptPatterns, ConfigSkipPatterns)

\* IsKeyEndpoint with the test for the key-fetch endpoint left out
IsKeyEndpoint_Never(req) == FALSE

\* config?.publicKeyEndpoint && req.url === config.publicKeyEndpoint
IsKeyEndpoint(req) ==
  config.publicKeyEndpoint # NoUrl /\ req.url = config.publicKeyEndpoint

\* envelope[name] of an object given as its set of (name, value) pairs
Field(fields, name) ==
  IF \E f \in fields : f[1] = name
  THEN [kind |-> "string", fields |-> {f \in fields : f[1] = name}]
  ELSE [kind |-> "undefined", fields |-> {}]

\* next(req): the request goes to the transport as it was given
PassThrough(req) ==
  [ method |-> req.method, url |-> req.url, body |-> req.body,
    aesKeyHeader |-> "unset", ivHeader |-> "unset", contentType |-> req.contentType,
    nonce |-> 0, during |-> pc, given |-> req ]

\* WithHeaders with the Content-Type of a sealed body set as well
WithHeaders_AlsoContentType(req, nonce) ==
  [ method |-> req.method, url |-> req.url, body |-> req.body,
    aesKeyHeader |-> "wrapped-key", ivHeader |-> "wrapped-iv",
    contentType |-> "text/plain", nonce |-> nonce, during |-> pc, given |-> req ]

\* next(req.clone({ setHeaders: { [aesKeyHeader]: ..., [ivHeader]: ... } }))
WithHeaders(req, nonce) ==
  [ method |-> req.method, url |-> req.url, body |-> req.body,
    aesKeyHeader |-> "wrapped-key", ivHeader |-> "wrapped-iv",
    contentType |-> req.contentType, nonce |-> nonce, during |-> pc, given |-> req ]

\* next(req.clone({ body: envelope['d'], setHeaders: {...} })) for a sealed envelope
WithEnvelope(req, nonce) ==
  [ method |-> req.method, url |-> req.url,
    body |-> [kind |-> "ciphertext", fields |-> req.body.fields],
    aesKeyHeader |-> "wrapped-key", ivHeader |-> "wrapped-iv",
    contentType |-> "text/plain", nonce |-> nonce, during |-> pc, given |-> req ]

\* req.clone({ body }): an undefined body in the update keeps the request's body
CloneBody(body, update) == IF update.kind = "undefined" THEN body ELSE update

\* the same clone when createEncryptedEnvelope returned the original payload
WithOriginalPayload(req) ==
  [ method |-> req.method, url |-> req.url,
    body |-> CloneBody(req.body, Field(req.body.fields, "d")),
    aesKeyHeader |-> "undefined", ivHeader |-> "undefined",
    contentType |-> "text/plain", nonce |-> 0, during |-> pc, given |-> req ]

\* IsBodilessMethod knowing DELETE only
IsBodilessMethod_DeleteOnly(req) == req.method = "DELETE"

\* req.method === 'DELETE' || req.method === 'HEAD' || req.method === 'OPTIONS'
IsBodilessMethod(req) == req.method \in {"DELETE", "HEAD", "OPTIONS"}

\* GenerateKeyAndIV with the first pair kept by the service and handed out again
GenerateKeyAndIV_Reuses(req) ==
  /\ generated < MaxSeals
  /\ generated' = generated + 1
  /\ pending' = [req |-> req, key |-> publicKey, nonce |-> 1]
  /\ forwarded' = NoForward

\* generateAESKey and generateIV: a pair never produced before
GenerateKeyAndIV(req) ==
  /\ generated < MaxSeals
  /\ generated' = generated + 1
  /\ pending' = [req |-> req, key |-> publicKey, nonce |-> generated + 1]
  /\ forwarded' = NoForward

\* the interceptor runs for a request; what does not wait for a cryptographic
\* operation happens in the same step
Intercept ==
  /\ pc # "idle"
  /\ pending = NoRequest
  /\ opening = NoOpening
  /\ \E req \in Requests :
       IF config.enableEncryption = "false" THEN
         /\ forwarded' = PassThrough(req) /\ UNCHANGED <<pending, generated>>
       ELSE IF ~ShouldEncrypt(req) THEN
         /\ forwarded' = PassThrough(req) /\ UNCHANGED <<pending, generated>>
       ELSE IF IsKeyEndpoint(req) THEN
         /\ forwarded' = PassThrough(req) /\ UNCHANGED <<pending, generated>>
       ELSE IF req.method = "GET" THEN
         \* generateEncryptedHeaders reads the key before its first await
         IF publicKey = NoKey
         THEN /\ forwarded' = PassThrough(req) /\ UNCHANGED <<pending, generated>>
         ELSE GenerateKeyAndIV(req)
       ELSE IF req.body.kind # "object" THEN
         /\ forwarded' = PassThrough(req) /\ UNCHANGED <<pending, generated>>
       ELSE IF IsBodilessMethod(req) THEN
         /\ forwarded' = PassThrough(req) /\ UNCHANGED <<pending, generated>>
       ELSE
         \* createEncryptedEnvelope -> encryptPayload reads the key first
         IF publicKey = NoKey
         THEN /\ forwarded' = WithOriginalPayload(req) /\ UNCHANGED <<pending, generated>>
         ELSE GenerateKeyAndIV(req)
  /\ delivered' = NoDelivery
  /\ UNCHANGED <<used, opening>>
  /\ UNCHANGED lifeVars

\* the key generation and the RSA/AES operations of a sealing resolve
SealResolved ==
  /\ pending # NoRequest
  /\ forwarded' = IF pending.req.method = "GET"
                  THEN WithHeaders(pending.req, pending.nonce)
                  ELSE WithEnvelope(pending.req, pending.nonce)
  /\ used' = used \cup {pending.nonce}
  /\ pending' = NoRequest
  /\ UNCHANGED <<generated, opening, delivered>>
  /\ UNCHANGED lifeVars

(***************************************************************************)
(* decryptionInterceptor                                                   *)
(***************************************************************************)
\* ShouldDecrypt with the skip patterns left out on the response leg
ShouldDecrypt_IncludeOnly(u) == matchesPattern(u, EncryptPatterns, <<>>)

\* shouldDecrypt, computed in switchMap and again in catchError
ShouldDecrypt(u) == matchesPattern(u, EncryptPatterns, ConfigSkipPatterns)

\* of(event) / throwError(() => error): the caller gets what the transport gave
Unchanged(u, event) ==
  [ url |-> u, event |-> event, kind |-> event.kind, body |-> event.body,
    status |-> StatusOf(event), statusText |-> StatusTextOf(event), top |-> {},
    attempted |-> FALSE ]

\* NotEncrypted with the body left untested
NotEncrypted_HeadersOnly(event) ==
  \/ event.keyHeader = "absent"
  \/ event.ivHeader = "absent"

\* the headers or the body that decryptResponsePayload needs are missing
NotEncrypted(event) ==
  \/ event.keyHeader = "absent"
  \/ event.ivHeader = "absent"
  \/ event.body = "empty"

\* decryptResponse(event, ...) up to the call of decryptResponsePayload
decryptResponse(u, event) ==
  IF NotEncrypted(event)
  THEN /\ delivered' = Unchanged(u, event) /\ UNCHANGED opening
  ELSE /\ opening' = [url |-> u, event |-> event] /\ UNCHANGED delivered

\* the transport answers the forwarded request and the interceptor's switchMap
\* or catchError runs on the answer
Respond ==
  /\ forwarded # NoForward
  /\ opening = NoOpening
  /\ \E event \in Events :
       LET u == forwarded.url IN
       IF event.kind = "other" THEN
         /\ delivered' = Unchanged(u, event) /\ UNCHANGED opening
       ELSE IF config.enableEncryption = "false" THEN
         /\ delivered' = Unchanged(u, event) /\ UNCHANGED opening
       ELSE IF ~ShouldDecrypt(u) THEN
         /\ delivered' = Unchanged(u, event) /\ UNCHANGED opening
       ELSE IF config.publicKeyEndpoint # NoUrl /\ u = config.publicKeyEndpoint THEN
         /\ delivered' = Unchanged(u, event) /\ UNCHANGED opening
       ELSE IF event.kind = "response" THEN
         decryptResponse(u, event)
       ELSE
         \* an error answer: the same test on error.headers and error.error
         IF NotEncrypted(event)
         THEN /\ delivered' = Unchanged(u, event) /\ UNCHANGED opening
         ELSE /\ opening' = [url |-> u, event |-> event] /\ UNCHANGED delivered
  /\ forwarded' = NoForward
  /\ UNCHANGED <<pending, generated, used>>
  /\ UNCHANGED lifeVars

\* JSON.parse of the decrypted text before the separator: the payload as its
\* set of (name, value) pairs
Opened(body) ==
  CASE body = "sealed-object" -> {<<"errors", "e1">>}
    [] body = "sealed-status" -> {<<"errors", "e1">>, <<"status", "failed">>}
    [] OTHER -> {}

\* decryptResponsePayload: resolves to an object, resolves to null, or rejects
DecryptOutcome(body) ==
  CASE body \in {"sealed-object", "sealed-status"} -> "object"
    [] body = "sealed-null" -> "null"
    [] OTHER -> "rejected"

\* Object.assign(target, fields): the own property name of the target afterwards
Assigned(own, fields, name) ==
  IF \E f \in fields : f[1] = name
  THEN (CHOOSE f \in fields : f[1] = name)[2]
  ELSE own

\* a 2xx response after decryptResponsePayload settled: cloned with the object
\* as its body; left as it was on null; on a rejection the exception goes
\* through catchError, which finds no headers on it and rethrows it
OpenedResponse(u, event) ==
  LET outcome == DecryptOutcome(event.body) IN
  [ url |-> u, event |-> event,
    kind |-> IF outcome = "rejected" THEN "decrypt-error" ELSE "response",
    body |-> CASE outcome = "object" -> "object"
               [] outcome = "null" -> event.body
               [] OTHER -> "empty",
    status |-> IF outcome = "rejected" THEN "none" ELSE StatusOf(event),
    statusText |-> IF outcome = "rejected" THEN "none" ELSE StatusTextOf(event),
    top |-> {},
    attempted |-> TRUE ]

\* OpenedError with a rejected decryption thrown in place of the original error
OpenedError_MasksOnRejection(u, event) ==
  LET outcome == DecryptOutcome(event.body)
      decrypted == Opened(event.body)
  IN  CASE outcome = "object" ->
             [ url |-> u, event |-> event, kind |-> "error", body |-> "object",
               status |-> Assigned(StatusOf(event), decrypted, "status"),
               statusText |-> Assigned(StatusTextOf(event), decrypted, "statusText"),
               top |-> decrypted,
               attempted |-> TRUE ]
        [] outcome = "rejected" ->
             [ url |-> u, event |-> event, kind |-> "decrypt-error", body |-> "empty",
               status |-> "none", statusText |-> "none", top |-> {},
               attempted |-> TRUE ]
        [] OTHER ->
             [ url |-> u, event |-> event, kind |-> "error", body |-> event.body,
               status |-> StatusOf(event), statusText |-> StatusTextOf(event),
               top |-> {},
               attempted |-> TRUE ]

\* an error answer after decryptResponsePayload settled: a new HttpErrorResponse
\* with the object as its error, the original status and status text, and the
\* object's properties assigned onto it; the original error on null or rejection
OpenedError(u, event) ==
  LET outcome == DecryptOutcome(event.body)
      decrypted == Opened(event.body)
  IN  IF outcome = "object"
      THEN [ url |-> u, event |-> event, kind |-> "error", body |-> "object",
             status |-> Assigned(StatusOf(event), decrypted, "status"),
             statusText |-> Assigned(StatusTextOf(event), decrypted, "statusText"),
             top |-> decrypted,
             attempted |-> TRUE ]
      ELSE [ url |-> u, event |-> event, kind |-> "error", body |-> event.body,
             status |-> StatusOf(event), statusText |-> StatusTextOf(event),
             top |-> {},
             attempted |-> TRUE ]

\* decryptResponsePayload settles
OpenResolved ==
  /\ opening # NoOpening
  /\ delivered' = IF opening.event.kind = "response"
                  THEN OpenedResponse(opening.url, opening.event)
                  ELSE OpenedError(opening.url, opening.event)
  /\ opening' = NoOpening
  /\ UNCHANGED <<pending, forwarded, generated, used>>
  /\ UNCHANGED lifeVars

(***************************************************************************)
(* One run of the initializer, over every configuration.                   *)
(***************************************************************************)
CachedAtStart == {NoPem, "pemA", "pemB", "pemX"}

LifeStart ==
  /\ pc = "Uninitialized"
  /\ branch = "none"
  /\ pemArg = NoPem
  /\ publicKey = NoKey
  /\ soFar = 0 /\ attempts = 0 /\ delays = <<>>
  /\ response = "none" /\ error = "none"
  /\ cacheReads = 0 /\ signals = <<>>
  /\ pending = NoRequest /\ forwarded = NoForward
  /\ generated = 0 /\ used = {}
  /\ opening = NoOpening /\ delivered = NoDelivery
  /\ MatchIdle
  /\ HashIdle
  /\ SealIdle

Init ==
  /\ config \in Configs
  /\ sessionStorage \in CachedAtStart
  /\ storageMode \in StorageModes
  /\ LifeStart

NoTraffic == UNCHANGED <<reqVars, matchVars, hashVars, sealVars>>

Next ==
  \/ InitializerDisabled /\ NoTraffic
  \/ InitializerDirectKey /\ NoTraffic
  \/ InitializerConfigError /\ NoTraffic
  \/ InitializerCachedKey /\ NoTraffic
  \/ InitializerCacheMiss /\ NoTraffic
  \/ VerifyHashResolved /\ NoTraffic
  \/ ImportKeySettled /\ NoTraffic
  \/ FetchFails /\ NoTraffic
  \/ RetryTimerFires /\ NoTraffic
  \/ FetchSucceeds /\ NoTraffic

Spec == Init /\ [][Next]_vars

\* the same run when every pending fetch, timer and cryptographic operation
\* eventually settles
SpecLive == Init /\ [][Next]_vars /\ WF_vars(Next)

(***************************************************************************)
(* The initializer with requests issued at any time. The configuration     *)
(* values the interceptor never reads are held to one value each.          *)
(***************************************************************************)
TrafficInit ==
  /\ config \in { c \in Configs :
                    /\ c.publicKeyFetchRetries = Some(1)
                    /\ c.publicKey # "pemX"
                    /\ c.expectedPublicKeyHash = Some(<<"a", "b", "0", "5">>)
                    /\ c.encryptDecryptForEndpoints = Some(<<>>) =>
                         /\ c.enableEncryption = "true"
                         /\ c.publicKey = "pemA"
                         /\ c.publicKeyEndpoint = KeyEndpoint }
  /\ sessionStorage \in {NoPem, "pemB"}
  /\ storageMode = "ok"
  /\ LifeStart

TrafficNext ==
  \/ Next
  \/ Intercept /\ UNCHANGED <<matchVars, hashVars, sealVars>>
  \/ SealResolved /\ UNCHANGED <<matchVars, hashVars, sealVars>>
  \/ Respond /\ UNCHANGED <<matchVars, hashVars, sealVars>>
  \/ OpenResolved /\ UNCHANGED <<matchVars, hashVars, sealVars>>

SpecTraffic == TrafficInit /\ [][TrafficNext]_vars


(***************************************************************************)
(* The matcher applied to bounded inputs.                                  *)
(***************************************************************************)
UrlChars == {"a", "/", "."}
PatternPieces == {<<"a">>, <<"/">>, <<".">>, <<"*">>, Placeholder}

\* the urls and patterns of the documented scenarios, shortened
ScenarioUrls ==
  { <<"a", "/", "a", "/", "a">>, <<"a", "/", "/", "a">>, <<"a", "/", "a">>,
    <<"a", "/", "a", "/", "a", "/", "a">>, <<"/", "a", "/", "a">>, <<"/", "a", "a">>,
    <<"a", "/", ".", "/", ".", "/", "a">> }
ScenarioPatterns == {<<"a", "/">> \o Placeholder \o <<"/", "a">>, <<"/", "a", "/", "*">>}

Urls == SeqsUpTo(UrlChars, MaxUrlLen) \cup ScenarioUrls
PatternsOf(n) == {Concat(ps) : ps \in SeqsUpTo(PatternPieces, n)}
IncludePatterns == PatternsOf(MaxPatPieces) \cup ScenarioPatterns
SkipPatterns == PatternsOf(MaxSkipPieces) \cup ScenarioPatterns

IncludeLists ==
  {<<>>} \cup {<<p>> : p \in IncludePatterns}
         \cup {<<p, q>> : p \in PatternsOf(1), q \in {Star, <<"a">>}}
SkipLists ==
  {<<>>} \cup {<<p>> : p \in SkipPatterns}
         \cup {<<p, q>> : p \in {<<".">>, SlashStar}, q \in {<<"/", "a">>}}

MatchInit ==
  /\ url \in Urls
  /\ patterns \in IncludeLists
  /\ skipPatterns \in SkipLists
  /\ matchPhase = "input"
  /\ matched = FALSE
  /\ HashIdle
  /\ LifeIdle
  /\ SealIdle

MatchCall ==
  /\ matchPhase = "input"
  /\ matched' = matchesPattern(url, patterns, skipPatterns)
  /\ matchPhase' = "returned"
  /\ UNCHANGED <<url, patterns, skipPatterns, hashVars, lifeVars, reqVars, sealVars>>

MatchNext == MatchCall

SpecMatch == MatchInit /\ [][MatchNext]_vars

(***************************************************************************)
(* The per-pattern rule as the specification words it, computed on the     *)
(* pattern itself (no regular-expression text is built).                   *)
(***************************************************************************)
\* w is the pattern p with every placeholder replaced by one or more non-'/' characters
RECURSIVE Instantiates(_, _)
Instantiates(w, p) ==
  IF p = <<>> THEN w = <<>>
  ELSE IF MatchesAt(p, Placeholder, 1)
       THEN \E n \in 1..Len(w) :
              /\ \A j \in 1..n : w[j] # "/"
              /\ Instantiates(SubSeq(w, n + 1, Len(w)), SubSeq(p, Len(Placeholder) + 1, Len(p)))
  ELSE /\ w # <<>>
       /\ Head(w) = Head(p)
       /\ Instantiates(Tail(w), Tail(p))

HasPlaceholder(p) == \E i \in 1..Len(p) : MatchesAt(p, Placeholder, i)

RulePatternMatches(u, p) ==
  IF p = <<"*">> THEN TRUE
  ELSE IF Len(p) >= 2 /\ p[Len(p) - 1] = "/" /\ p[Len(p)] = "*"
       THEN \E i \in 1..(Len(u) + 1) : \E j \in (i - 1)..Len(u) :
              SubSeq(u, i, j) = SubSeq(p, 1, Len(p) - 2)
  ELSE IF HasPlaceholder(p)
       THEN \E i \in 1..(Len(u) + 1) : \E j \in (i - 1)..Len(u) :
              Instantiates(SubSeq(u, i, j), p)
  ELSE \E i \in 1..(Len(u) + 1) : \E j \in (i - 1)..Len(u) : SubSeq(u, i, j) = p

\* C5: skip precedence. Whenever at least one skip pattern matches the url,
\* matchesPattern returns false, whatever the include patterns are (an include
\* list holding '*' included).
C5_SkipPrecedence ==
  (matchPhase = "returned"
     /\ \E i \in 1..Len(skipPatterns) : RulePatternMatches(url, skipPatterns[i]))
  => matched = FALSE

C5_Witness ==
  /\ matchPhase = "returned"
  /\ \E i \in 1..Len(patterns) : patterns[i] = Star
  /\ skipPatterns = <<<<"/", "a", "/", "*">>>>
  /\ url = <<"/", "a", "/", "a">>
  /\ matched = FALSE

RECURSIVE LowerHex(_)
LowerHex(bytes) ==
  IF bytes = <<>> THEN <<>>
  ELSE <<HexDigits[(Head(bytes) \div 16) + 1], HexDigits[(Head(bytes) % 16) + 1]>>
       \o LowerHex(Tail(bytes))

UpperChar(c) ==
  CASE c = "a" -> "A" [] c = "b" -> "B" [] c = "c" -> "C"
    [] c = "d" -> "D" [] c = "e" -> "E" [] c = "f" -> "F" [] OTHER -> c
Upper(str) == [i \in 1..Len(str) |-> UpperChar(str[i])]

ConfiguredHashes ==
  {NoString, Some(<<>>), Some(HashPlaceholder)}
    \cup {Some(LowerHex(Sha256(p))) : p \in Pems}
    \cup {Some(Upper(LowerHex(Sha256(p)))) : p \in Pems}
    \cup {Some(Tail(LowerHex(Sha256(p)))) : p \in Pems}
    \cup {Some(LowerHex(Sha256(p)) \o <<"0">>) : p \in Pems}

HashInit ==
  /\ pemKey \in Pems
  /\ expectedPublicKeyHash \in ConfiguredHashes
  /\ hashPhase = "input"
  /\ isValid = FALSE
  /\ MatchIdle
  /\ LifeIdle
  /\ SealIdle

HashCall ==
  /\ hashPhase = "input"
  /\ isValid' = verifyPublicKeyHash(pemKey, expectedPublicKeyHash)
  /\ hashPhase' = "returned"
  /\ UNCHANGED <<pemKey, expectedPublicKeyHash, matchVars, lifeVars, reqVars, sealVars>>

HashNext == HashCall

SpecHash == HashInit /\ [][HashNext]_vars

\* C4: verifyPublicKeyHash(pem) is true exactly when a hash is configured and the
\* lowercase-hex SHA-256 digest of the PEM text equals it; with no hash configured
\* it is false for every PEM.
C4_HashPinning ==
  hashPhase = "returned" =>
    /\ isValid <=> ( /\ expectedPublicKeyHash.defined
                     /\ LowerHex(Sha256(pemKey)) = expectedPublicKeyHash.value )
    /\ ~expectedPublicKeyHash.defined => ~isValid

C4_Witness ==
  /\ hashPhase = "returned"
  /\ pemKey = "pemA"
  /\ expectedPublicKeyHash = Some(<<"a", "b", "0", "5">>)
  /\ isValid = TRUE

(***************************************************************************)
(* The envelope applied to bounded payloads, and what a peer can send.     *)
(***************************************************************************)
PayloadChars == {"x", "|"}
PayloadTexts == SeqsUpTo(PayloadChars, MaxValueLen)

\* generateRandomString: Base64 text, here of one or two characters
Paddings == {<<"p">>, <<"p", "q">>}

\* raw AES keys and IVs, shortened to two bits and one bit
AesKeys == 0..3
Ivs == 0..1

\* the bits of a ciphertext that can be changed in transit
CipherBits == 0..1

\* the plaintexts a peer can seal: the payload without separator and padding,
\* with half a separator, the text null with padding, and padding alone
PeerTexts(value, pad) ==
  { Stringify(value),
    Stringify(value) \o <<"|">> \o pad,
    NullText \o Separator \o pad,
    pad }

SealInit ==
  /\ payload \in PayloadTexts
  /\ padding \in Paddings
  /\ cipher = NoCipher
  /\ opened = NoResult
  /\ sealPhase = "input"
  /\ MatchIdle
  /\ HashIdle
  /\ LifeIdle

\* encryptPayload seals the payload under a generated key and IV
SealCall ==
  /\ sealPhase = "input"
  /\ \E key \in AesKeys, iv \in Ivs :
       cipher' = encryptPayload(payload, padding, key, iv)
  /\ sealPhase' = "sealed"
  /\ UNCHANGED <<payload, padding, opened, matchVars, hashVars, lifeVars, reqVars>>

\* the peer seals a text of its own making under the key and IV it was sent
PeerSeals ==
  /\ sealPhase = "input"
  /\ \E text \in PeerTexts(payload, padding), key \in AesKeys, iv \in Ivs :
       cipher' = AesGcmEncrypt(text, key, iv)
  /\ sealPhase' = "sealed"
  /\ UNCHANGED <<payload, padding, opened, matchVars, hashVars, lifeVars, reqVars>>

\* one bit of the ciphertext is changed in transit
TamperCipher ==
  /\ sealPhase = "sealed"
  /\ \E b \in CipherBits :
       cipher' = [cipher EXCEPT !.flipped =
                    IF b \in @ THEN @ \ {b} ELSE @ \cup {b}]
  /\ UNCHANGED <<payload, padding, opened, sealPhase,
                 matchVars, hashVars, lifeVars, reqVars>>

\* decryptResponsePayload opens the ciphertext with the key and IV of the headers
OpenCall ==
  /\ sealPhase = "sealed"
  /\ \E key \in AesKeys, iv \in Ivs :
       LET settled == decryptResponsePayload(cipher, key, iv) IN
       opened' = [state |-> settled.state, kind |-> settled.kind,
                  value |-> settled.value, key |-> key, iv |-> iv]
  /\ sealPhase' = "opened"
  /\ UNCHANGED <<payload, padding, cipher, matchVars, hashVars, lifeVars, reqVars>>

SealNext == SealCall \/ PeerSeals \/ TamperCipher \/ OpenCall

SpecSeal == SealInit /\ [][SealNext]_vars

(***************************************************************************)
(* Properties of the key lifecycle.                                        *)
(***************************************************************************)
\* the PEM's lowercase-hex digest equals the configured pinned hash
PinMatches(pem) ==
  /\ config.expectedPublicKeyHash.defined
  /\ LowerHex(Sha256(pem)) = config.expectedPublicKeyHash.value

Terminal == {"Ready", "Failed", "Disabled"}
FromApi == branch \in {"stale", "miss"}

C7_ExactlyNAttempts ==
  ( /\ pc = "Failed" /\ error = "fetch failed"
    /\ config.publicKeyFetchRetries.defined
    /\ config.publicKeyFetchRetries.value >= 1 )
  => attempts = config.publicKeyFetchRetries.value

\* C7 as amended: with N = publicKeyFetchRetries || 3 and a fetch that always
\* fails, exactly N + 1 attempts are made (the first one and N retries) before
\* Failed.
C7_NRetriesAfterFirstAttempt ==
  (pc = "Failed" /\ error = "fetch failed") =>
    LET n == IF config.publicKeyFetchRetries.defined
                  /\ config.publicKeyFetchRetries.value # 0
             THEN config.publicKeyFetchRetries.value ELSE 3
    IN  /\ attempts = n + 1
        /\ Len(delays) = n

C7_Witness ==
  /\ pc = "Failed"
  /\ error = "fetch failed"
  /\ config.publicKeyFetchRetries = Some(2)
  /\ attempts = 3

\* C8: once a fetch attempt got a 2xx response no further attempt is made: a
\* missing header, a hash mismatch of the fetched PEM and a failed import of it
\* each lead directly to Failed.
C8_OnlyTransportFailuresRetried ==
  [][ /\ response \in {"ok", "ok-noheader"} =>
           (attempts' = attempts /\ pc' \notin {"fetching", "backoff"})
      /\ response' = "ok-noheader" => pc' = "Failed"
      /\ (response = "ok" /\ pc = "verify" /\ pc' # pc /\ ~PinMatches(pemArg))
           => pc' = "Failed"
      /\ (response = "ok" /\ pc = "import" /\ pc' # pc /\ ~Importable(pemArg))
           => pc' = "Failed"
    ]_vars

C8_Witness ==
  /\ response = "ok"
  /\ pc = "Failed"
  /\ error = "Public key hash mismatch - possible MITM attack"
  /\ attempts = 2

\* C9 as claimed: when the cached PEM fails validation the cache entry is removed
\* before any fetch is issued, a fetch is then made, and the run fails only if the
\* fetch path fails: a fetched PEM that validates ends the run in Ready.
C9_StaleCacheFallback ==
  /\ branch = "cached" => attempts = 0
  /\ branch = "stale" =>
       /\ attempts >= 1
       /\ pc # "Ready" => sessionStorage = NoPem
       /\ pc = "Failed" =>
            /\ error # "none"
            /\ ~(response = "ok" /\ PinMatches(pemArg) /\ Importable(pemArg))
       /\ (pc \in Terminal /\ response = "ok" /\ PinMatches(pemArg) /\ Importable(pemArg))
            => pc = "Ready"

\* C9 as amended: when the cached PEM fails validation the removal of the cache
\* entry is attempted before any fetch is issued and the entry is gone unless
\* the removal threw a storage exception (then it stays); either way a fetch is
\* made, and the run fails only if the fetch path fails.
C9_StaleCacheFallbackUnlessRemovalThrows ==
  /\ branch = "cached" => attempts = 0
  /\ branch = "stale" =>
       /\ attempts >= 1
       /\ (pc # "Ready" /\ storageMode # "readonly") => sessionStorage = NoPem
       /\ storageMode = "readonly" => sessionStorage # NoPem
       /\ pc = "Failed" =>
            /\ error # "none"
            /\ ~(response = "ok" /\ PinMatches(pemArg) /\ Importable(pemArg))
       /\ (pc \in Terminal /\ response = "ok" /\ PinMatches(pemArg) /\ Importable(pemArg))
            => pc = "Ready"

C9_Witness ==
  /\ branch = "stale"
  /\ pc = "Ready"
  /\ attempts = 2

\* C10 as claimed: after a run that fetched a PEM and validated it (Ready), the
\* cache entry holds exactly that PEM.
C10_CacheHoldsFetchedPem ==
  (pc = "Ready" /\ FromApi) => sessionStorage = pemArg

\* C10 as amended: after such a run the cache entry holds exactly that PEM unless
\* the cache write threw a storage exception; when setItem throws for lack of
\* quota the run still reaches Ready and the entry stays absent.
C10_CacheHoldsFetchedPemIfStored ==
  (pc = "Ready" /\ FromApi) =>
    /\ publicKey = CryptoKeyOf(pemArg)
    /\ storageMode = "ok" => sessionStorage = pemArg
    /\ storageMode = "quota" => sessionStorage = NoPem

C10_Witness ==
  /\ pc = "Ready"
  /\ branch = "miss"
  /\ storageMode = "ok"
  /\ sessionStorage = "pemA"

\* C11: when the cache holds a PEM that passes validation (its digest equals the
\* pinned hash and it imports), the run stays on the cached branch, issues no
\* fetch at all and ends in Ready with the key made from that cached PEM.
C11_ValidCacheNeedsNoFetch ==
  [][ (branch = "cached" /\ PinMatches(pemArg) /\ Importable(pemArg)) =>
        /\ sessionStorage = pemArg
        /\ attempts = 0 /\ attempts' = 0
        /\ branch' = "cached" /\ pemArg' = pemArg
        /\ pc' \in {"verify", "import", "Ready"}
        /\ pc' = "Ready" => publicKey' = CryptoKeyOf(sessionStorage)
    ]_vars

C11_Witness ==
  /\ branch = "cached"
  /\ pc = "Ready"
  /\ cacheReads = 1
  /\ attempts = 0
  /\ response = "none"
  /\ publicKey = CryptoKeyOf("pemA")

\* C12: with encryption enabled and a direct PEM configured (with or without a
\* fetch endpoint, whatever the cache holds) the run never reads the cache and
\* never fetches; it validates the configured PEM and ends in Ready exactly when
\* that PEM matches the pin and imports, in Failed otherwise.
C12_DirectKeySkipsCacheAndFetch ==
  (config.enableEncryption # "false" /\ config.publicKey # NoPem) =>
    /\ cacheReads = 0
    /\ attempts = 0 /\ response = "none" /\ delays = <<>>
    /\ branch \in {"none", "direct"}
    /\ pemArg \in {NoPem, config.publicKey}
    /\ pc \in {"Uninitialized", "verify", "import", "Ready", "Failed"}
    /\ pc = "Ready" => publicKey = CryptoKeyOf(config.publicKey)
    /\ pc \in Terminal =>
         (pc = "Ready" <=> (PinMatches(config.publicKey) /\ Importable(config.publicKey)))

C12_Witness ==
  /\ config.publicKey = "pemA"
  /\ config.publicKeyEndpoint = KeyEndpoint
  /\ sessionStorage = "pemB"
  /\ storageMode = "quota"
  /\ pc = "Ready"
  /\ publicKey = CryptoKeyOf("pemA")

\* C14: with encryption enabled and neither a direct PEM nor a fetch endpoint
\* configured, the initializer's first step ends the run in Failed with an error
\* notification; the cache is never read, no fetch is issued, no key is set.
C14_ConfigurationErrorIsFatal ==
  ( /\ config.enableEncryption # "false"
    /\ config.publicKey = NoPem
    /\ config.publicKeyEndpoint = NoUrl ) =>
    /\ pc \in {"Uninitialized", "Failed"}
    /\ pc = "Failed" =>
         /\ error = "publicKeyEndpoint or publicKey required"
         /\ signals = <<"error">>
    /\ cacheReads = 0
    /\ attempts = 0 /\ response = "none"
    /\ publicKey = NoKey /\ pemArg = NoPem /\ branch = "none"

C14_Witness ==
  /\ config.enableEncryption = "undefined"
  /\ config.publicKey = NoPem
  /\ config.publicKeyEndpoint = NoUrl
  /\ sessionStorage = "pemA"
  /\ config.expectedPublicKeyHash = Some(<<"a", "b", "0", "5">>)
  /\ pc = "Failed"

\* C15: when every fetch attempt and cryptographic operation eventually settles,
\* each run of the initializer eventually reaches a terminal state and notifies
\* exactly one terminal outcome: next and complete once (Ready or Disabled) or
\* error once (Failed), never both and never one of them twice, on every path.
C15_ExactlyOneTerminalSignal ==
  /\ [](signals \in {<<>>, <<"next", "complete">>, <<"error">>})
  /\ [](signals = <<"next", "complete">> <=> pc \in {"Ready", "Disabled"})
  /\ [](signals = <<"error">> <=> pc = "Failed")
  /\ <>(pc \in Terminal /\ signals # <<>>)

C15_Witness ==
  /\ branch = "stale"
  /\ pc = "Ready"
  /\ attempts = 2
  /\ signals = <<"next", "complete">>

(***************************************************************************)
(* Properties of the interceptor during the key lifecycle.                 *)
(***************************************************************************)
\* C2: with encryption enabled, a request whose url matches the encryption rule
\* (and is not the key-fetch endpoint), issued once the initializer has started,
\* is never handed to the transport while the lifecycle has not reached Ready
\* (key acquisition in progress, or Failed).
C2_NoMatchingRequestBeforeReady ==
  ( /\ forwarded # NoForward
    /\ config.enableEncryption # "false"
    /\ \E i \in 1..Len(EncryptPatterns) : RulePatternMatches(forwarded.url, EncryptPatterns[i])
    /\ ~\E i \in 1..Len(ConfigSkipPatterns) :
           RulePatternMatches(forwarded.url, ConfigSkipPatterns[i])
    /\ ~IsKeyEndpoint(forwarded)
    /\ forwarded.during # "Uninitialized" )
  => forwarded.during = "Ready"

\* a forwarded request that is the given request in every part
ForwardedAsGiven ==
  /\ forwarded.method = forwarded.given.method
  /\ forwarded.url = forwarded.given.url
  /\ forwarded.body = forwarded.given.body
  /\ forwarded.contentType = forwarded.given.contentType
  /\ forwarded.aesKeyHeader = "unset"
  /\ forwarded.ivHeader = "unset"
  /\ forwarded.nonce = 0

\* a delivered answer that is the transport's answer, with no decryption tried
DeliveredAsAnswered ==
  /\ delivered.kind = delivered.event.kind
  /\ delivered.body = delivered.event.body
  /\ delivered.status = StatusOf(delivered.event)
  /\ delivered.statusText = StatusTextOf(delivered.event)
  /\ delivered.top = {}
  /\ ~delivered.attempted

\* the url passes the pattern rule as the reference rule states it
RuleMatches(u) ==
  /\ \E i \in 1..Len(EncryptPatterns) : RulePatternMatches(u, EncryptPatterns[i])
  /\ ~\E i \in 1..Len(ConfigSkipPatterns) : RulePatternMatches(u, ConfigSkipPatterns[i])

\* C13: with enableEncryption false the initializer completes in its first step
\* (Disabled, which no step leaves) without reading the cache, fetching or setting
\* a key; every request is forwarded as given and every answer, error answers
\* included, is delivered as the transport gave it, with no decryption tried.
\* With enableEncryption absent the system is enabled: the initializer never
\* ends in Disabled, a matching GET in Ready gets the wrapped headers, a matching
\* POST of an object is sealed and a sealed matching answer is decrypted.
C13_DisabledIsInert ==
  /\ []( config.enableEncryption = "false" =>
          /\ pc \in {"Uninitialized", "Disabled"}
          /\ pc = "Disabled" => signals = <<"next", "complete">>
          /\ cacheReads = 0 /\ attempts = 0 /\ response = "none"
          /\ publicKey = NoKey /\ pemArg = NoPem /\ branch = "none"
          /\ pending = NoRequest /\ generated = 0 /\ opening = NoOpening
          /\ forwarded # NoForward => ForwardedAsGiven
          /\ delivered # NoDelivery => DeliveredAsAnswered )
  /\ [][ pc = "Disabled" => (pc' = "Disabled" /\ sessionStorage' = sessionStorage) ]_vars
  /\ []( config.enableEncryption = "undefined" =>
          /\ pc # "Disabled"
          /\ ( /\ forwarded # NoForward
               /\ forwarded.during = "Ready"
               /\ RuleMatches(forwarded.url) /\ ~IsKeyEndpoint(forwarded)
               /\ \/ forwarded.given.method = "GET"
                  \/ /\ forwarded.given.method = "POST"
                     /\ forwarded.given.body.kind = "object" )
              => (forwarded.aesKeyHeader = "wrapped-key" /\ forwarded.nonce > 0)
          /\ ( /\ delivered # NoDelivery
               /\ RuleMatches(delivered.url)
               /\ ~(config.publicKeyEndpoint # NoUrl /\ delivered.url = config.publicKeyEndpoint)
               /\ delivered.event.kind \in {"response", "error"}
               /\ ~NotEncrypted(delivered.event) )
              => delivered.attempted )

C13_Witness ==
  /\ config.enableEncryption = "false"
  /\ config.publicKey = "pemA"
  /\ pc = "Disabled"
  /\ delivered.url = UrlPlain
  /\ delivered.event.kind = "error"
  /\ delivered.event.keyHeader = "raw-key"
  /\ delivered.event.ivHeader = "raw-iv"
  /\ delivered.event.body = "sealed-object"
  /\ delivered.body = "sealed-object"

\* C16 as claimed: in Ready every POST, PUT or PATCH that carries a body, whose
\* url passes the pattern rule and is not the key-fetch endpoint, is forwarded
\* with the ciphertext as its body, the wrapped key and IV headers and
\* Content-Type text/plain, whatever kind of body it carries.
C16_EveryBodySealedInReady ==
  ( /\ forwarded # NoForward
    /\ config.enableEncryption # "false"
    /\ forwarded.during = "Ready"
    /\ forwarded.given.method \in {"POST", "PUT", "PATCH"}
    /\ forwarded.given.body # NoBody
    /\ RuleMatches(forwarded.url)
    /\ ~IsKeyEndpoint(forwarded) )
  => /\ forwarded.body = [kind |-> "ciphertext", fields |-> forwarded.given.body.fields]
     /\ forwarded.aesKeyHeader = "wrapped-key"
     /\ forwarded.ivHeader = "wrapped-iv"
     /\ forwarded.contentType = "text/plain"

\* a GET handed to the transport in Ready whose url passes the pattern rule and
\* is not the key-fetch endpoint
MatchingGetInReady ==
  /\ forwarded # NoForward
  /\ config.enableEncryption # "false"
  /\ forwarded.during = "Ready"
  /\ forwarded.given.method = "GET"
  /\ RuleMatches(forwarded.url)
  /\ ~IsKeyEndpoint(forwarded)

\* C17: in Ready every GET whose url passes the pattern rule and is not the
\* key-fetch endpoint is forwarded with the wrapped key header and the wrapped IV
\* header added and nothing else changed (method, url, body, other headers); the
\* key and IV wrapped in them were generated for this request and were in no
\* request forwarded before.
C17_GetCarriesFreshWrappedHeaders ==
  /\ []( MatchingGetInReady =>
          /\ forwarded.aesKeyHeader = "wrapped-key"
          /\ forwarded.ivHeader = "wrapped-iv"
          /\ forwarded.method = "GET"
          /\ forwarded.url = forwarded.given.url
          /\ forwarded.body = forwarded.given.body
          /\ forwarded.body.kind # "ciphertext"
          /\ forwarded.contentType = forwarded.given.contentType
          /\ forwarded.nonce \in 1..generated )
  /\ [][ (forwarded' # forwarded /\ MatchingGetInReady') =>
            /\ forwarded'.nonce \notin used
            /\ used' = used \cup {forwarded'.nonce} ]_vars

C17_Witness ==
  /\ MatchingGetInReady
  /\ forwarded.url = UrlPlain
  /\ config.encryptDecryptForEndpoints.defined
  /\ forwarded.nonce = 2
  /\ used = {1, 2}

\* the url is the configured key-fetch endpoint
IsConfiguredEndpoint(u) ==
  config.publicKeyEndpoint # NoUrl /\ u = config.publicKeyEndpoint

\* C18: in every lifecycle state and under every pattern configuration, a request
\* whose url equals the configured key-fetch endpoint is forwarded as given and
\* never enters a sealing, and its answer (response or error) is delivered as the
\* transport gave it and never enters a decryption.
C18_KeyEndpointExchangeUntouched ==
  /\ (forwarded # NoForward /\ IsConfiguredEndpoint(forwarded.given.url)) =>
       ForwardedAsGiven
  /\ pending # NoRequest => ~IsConfiguredEndpoint(pending.req.url)
  /\ opening # NoOpening => ~IsConfiguredEndpoint(opening.url)
  /\ (delivered # NoDelivery /\ IsConfiguredEndpoint(delivered.url)) =>
       DeliveredAsAnswered

C18_Witness ==
  /\ config.publicKeyEndpoint = KeyEndpoint
  /\ ~config.encryptDecryptForEndpoints.defined
  /\ pc = "Ready"
  /\ forwarded.during = "Ready"
  /\ forwarded.url = KeyEndpoint
  /\ forwarded.given.method = "POST"
  /\ forwarded.given.body.kind = "object"
  /\ ForwardedAsGiven

\* C19: in every lifecycle state a request whose url does not pass the pattern
\* rule, or whose method is DELETE, HEAD or OPTIONS, or that is not a GET and has
\* no body, is forwarded with its body, headers and content type as given, and
\* never enters a sealing.
C19_PassThroughFrame ==
  LET Exempt(r) ==
        \/ ~RuleMatches(r.url)
        \/ r.method \in {"DELETE", "HEAD", "OPTIONS"}
        \/ (r.method # "GET" /\ r.body = NoBody)
  IN  /\ (forwarded # NoForward /\ Exempt(forwarded.given)) => ForwardedAsGiven
      /\ pending # NoRequest => ~Exempt(pending.req)

C19_Witness ==
  /\ pc = "Ready"
  /\ forwarded.during = "Ready"
  /\ forwarded.given.method = "OPTIONS"
  /\ forwarded.given.body.kind = "object"
  /\ forwarded.url = UrlPlain
  /\ RuleMatches(forwarded.url)
  /\ ForwardedAsGiven

\* C20: a successful response that lacks the key header or the IV header, or
\* whose body is empty, is delivered as a response with its body as the transport
\* gave it and no error; no decryption is started for it.
C20_AbsenceIsNotAnError ==
  LET Absent(e) ==
        /\ e.kind = "response"
        /\ (e.keyHeader # "raw-key" \/ e.ivHeader # "raw-iv" \/ e.body = "empty")
  IN  /\ (delivered # NoDelivery /\ Absent(delivered.event)) =>
            /\ delivered.kind = "response"
            /\ delivered.body = delivered.event.body
            /\ ~delivered.attempted
      /\ opening # NoOpening => ~Absent(opening.event)

C20_Witness ==
  /\ config.enableEncryption # "false"
  /\ pc = "Ready"
  /\ delivered.url = UrlPlain
  /\ RuleMatches(delivered.url)
  /\ delivered.event.kind = "response"
  /\ delivered.event.keyHeader = "raw-key"
  /\ delivered.event.ivHeader = "absent"
  /\ delivered.event.body = "sealed-object"
  /\ delivered.kind = "response"
  /\ delivered.body = "sealed-object"

\* C21 as claimed: a 2xx response that carries both headers and a body whose
\* opening fails (malformed Base64, failed authentication, unparsable plaintext)
\* reaches the caller as the original response with its unopened body, not as an
\* error.
C21_FailedOpeningKeepsResponse ==
  ( /\ delivered # NoDelivery
    /\ delivered.event.kind = "response"
    /\ delivered.event.keyHeader = "raw-key"
    /\ delivered.event.ivHeader = "raw-iv"
    /\ delivered.event.body = "garbage" )
  => /\ delivered.kind = "response"
     /\ delivered.body = delivered.event.body

\* C22 as claimed: for an error answer on a matching url that carries both headers
\* and a body that opens to a payload, the error thrown to the caller has every
\* field of the payload at its top level and the status and status text of the
\* original error answer, whatever the payload's field names.
C22_OpenedErrorKeepsStatus ==
  ( /\ delivered # NoDelivery
    /\ delivered.event.kind = "error"
    /\ delivered.attempted
    /\ DecryptOutcome(delivered.event.body) = "object" )
  => /\ delivered.kind = "error"
     /\ Opened(delivered.event.body) \subseteq delivered.top
     /\ delivered.status = StatusOf(delivered.event)
     /\ delivered.statusText = StatusTextOf(delivered.event)

\* C23: an error answer in which the key header or the IV header is absent, or
\* whose body is empty, or whose opening fails, or whose opening yields no
\* payload, reaches the caller as the original error: same body, status and
\* status text, nothing merged onto it.
C23_TransportErrorNeverMasked ==
  ( /\ delivered # NoDelivery
    /\ delivered.event.kind = "error"
    /\ \/ delivered.event.keyHeader = "absent"
       \/ delivered.event.ivHeader = "absent"
       \/ delivered.event.body \in {"empty", "garbage", "sealed-null"} )
  => /\ delivered.kind = "error"
     /\ delivered.body = delivered.event.body
     /\ delivered.status = "400"
     /\ delivered.statusText = "Bad Request"
     /\ delivered.top = {}

C23_Witness ==
  /\ config.enableEncryption # "false"
  /\ delivered.url = UrlPlain
  /\ delivered.event.kind = "error"
  /\ delivered.event.keyHeader = "raw-key"
  /\ delivered.event.ivHeader = "raw-iv"
  /\ delivered.event.body = "garbage"
  /\ delivered.attempted
  /\ delivered.kind = "error"
  /\ delivered.body = "garbage"

(***************************************************************************)
(* Properties of the envelope.                                             *)
(***************************************************************************)
\* the ciphertext was opened with the key and IV it was made under
OpenedWithSameKey ==
  /\ sealPhase = "opened"
  /\ opened.key = cipher.key
  /\ opened.iv = cipher.iv

\* the ciphertext is the one encryptPayload makes of the payload
SealedByEncryptPayload ==
  cipher = encryptPayload(payload, padding, cipher.key, cipher.iv)

\* C24: round trip: whatever characters the serialized payload contains,
\* sealing it with encryptPayload and opening the result with the same key and
\* IV yields the payload again.
C24_RoundTrip ==
  (OpenedWithSameKey /\ SealedByEncryptPayload)
    => /\ opened.state = "resolved"
       /\ opened.kind = "object"
       /\ opened.value = payload

\* C25: a decrypted text without any separator never opens to a payload: the
\* opening fails with a decryption error.
C25_NoSeparatorIsDecryptionError ==
  (OpenedWithSameKey /\ ~Includes(cipher.text, Separator))
    => opened.state = "rejected"

\* C26: with a public key given directly in the configuration and no expected
\* hash configured, the run ends in Ready with the imported key active (the
\* hash is verified only when one is provided).
C26_DirectKeyWithoutPinSucceeds ==
  (/\ config.enableEncryption # "false"
   /\ config.publicKey # NoPem
   /\ Importable(config.publicKey)
   /\ ~config.expectedPublicKeyHash.defined
   /\ pc \in Terminal)
    => /\ pc = "Ready"
       /\ publicKey = CryptoKeyOf(config.publicKey)

\* C27: the active key is written at most once per run, at the step into Ready;
\* it is unset in every state other than Ready, and once set it never changes
\* or reverts while requests are processed.
C27_KeyWrittenOnceAtReady ==
  /\ [](publicKey # NoKey <=> pc = "Ready")
  /\ [][publicKey' # publicKey =>
          (publicKey = NoKey /\ pc # "Ready" /\ pc' = "Ready")]_vars

C27_Witness ==
  /\ pc = "Ready"
  /\ publicKey = CryptoKeyOf("pemA")
  /\ Cardinality(used) = 1
  /\ pending # NoRequest
  /\ pending.key = publicKey

\* the forwarded request carries a wrapped key and IV or a sealed body
CarriesKeyMaterial(f) ==
  \/ f.aesKeyHeader = "wrapped-key"
  \/ f.ivHeader = "wrapped-iv"
  \/ f.body.kind = "ciphertext"

C29_CacheOperationsFailSoft ==
  /\ []( /\ (/\ storageMode = "denied"
             /\ config.enableEncryption # "false"
             /\ config.publicKey = NoPem
             /\ config.publicKeyEndpoint # NoUrl
             /\ pc # "Uninitialized")
            => (branch = "miss" /\ attempts >= 1)
         /\ pc = "Failed" =>
              \/ error = "publicKeyEndpoint or publicKey required"
              \/ (error = "fetch failed" /\ response = "error")
              \/ (error = "header not found" /\ response = "ok-noheader")
              \/ (error = "Public key hash mismatch - possible MITM attack"
                    /\ ~PinMatches(pemArg))
              \/ (error = "importKey failed" /\ ~Importable(pemArg)) )
  /\ [][ (pc = "import" /\ Importable(pemArg)) =>
            (pc' = "Ready" /\ publicKey' = CryptoKeyOf(pemArg)) ]_vars
  /\ [][ (branch = "cached" /\ branch' # "cached") =>
            (branch' = "stale" /\ pc' = "fetching" /\ attempts' = 1) ]_vars

C29_Witness ==
  /\ storageMode = "readonly"
  /\ branch = "stale"
  /\ pc = "Ready"
  /\ publicKey = CryptoKeyOf("pemA")
  /\ sessionStorage = "pemB"

\* C30: the delay before fetch attempt a (a >= 2) is 2^(a-2) seconds: 1 s after
\* the first failure and twice the previous delay after each further one, so
\* the delays never decrease; and an attempt after the first is issued only by
\* the timer of its own delay firing.
C30_ExponentialBackoff ==
  /\ []( /\ \A i \in 1..Len(delays) :
              delays[i] = IF i = 1 THEN 1000 ELSE 2 * delays[i - 1]
         /\ pc = "fetching" => Len(delays) = attempts - 1
         /\ pc = "backoff" => Len(delays) = attempts )
  /\ [][ (attempts' # attempts /\ attempts >= 1) =>
            /\ pc = "backoff"
            /\ attempts' = attempts + 1
            /\ Len(delays) = attempts
            /\ delays' = delays ]_vars

C30_Witness ==
  /\ delays = <<1000, 2000, 4000>>
  /\ attempts = 4
  /\ pc = "fetching"

\* C31: the cache entry is created only by a successful fetch followed by a
\* successful validation: a run on a directly configured PEM never writes the
\* cache, and a PEM written to the cache was fetched from the endpoint in this
\* run (or is the entry that was there already).
C31_CacheWrittenOnlyAfterFetch ==
  [][ (sessionStorage' # sessionStorage /\ sessionStorage' # NoPem) =>
        /\ branch # "direct"
        /\ FromApi
        /\ response = "ok"
        /\ sessionStorage' = pemArg ]_vars

\* the scenario pattern with one dynamic segment: a/{ignore}/a
OneSegmentPattern == <<"a", "/">> \o Placeholder \o <<"/", "a">>

\* the pattern is handled by the placeholder rule
IsPlaceholderPattern(p) ==
  /\ p # Star
  /\ ~EndsWith(p, SlashStar)
  /\ Includes(p, Placeholder)

\* C32: each placeholder stands for exactly one non-empty run of non-'/'
\* characters: a placeholder pattern matches a url exactly when some part of the
\* url is the pattern with every placeholder so filled in. For 'A/{ignore}/B' a
\* url with 'A/x/B' matches; a url where the segment is missing, empty or spans
\* several segments matches only through another occurrence.
C32_PlaceholderIsOneSegment ==
  (matchPhase = "returned" /\ Len(patterns) = 1 /\ skipPatterns = <<>>
     /\ IsPlaceholderPattern(patterns[1])) =>
    /\ matched <=>
         \E i \in 1..(Len(url) + 1) : \E j \in (i - 1)..Len(url) :
           Instantiates(SubSeq(url, i, j), patterns[1])
    /\ patterns[1] = OneSegmentPattern =>
         /\ url = <<"a", "/", "a", "/", "a">> => matched
         /\ url = <<"a", "/", "a">> => ~matched
         /\ url = <<"a", "/", "/", "a">> => ~matched
         /\ url = <<"a", "/", ".", "/", ".", "/", "a">> => ~matched
         /\ url = <<"a", "/", "a", "/", "a", "/", "a">> => matched

C32_Witness ==
  /\ matchPhase = "returned"
  /\ patterns = <<OneSegmentPattern>>
  /\ skipPatterns = <<>>
  /\ url = <<"a", "/", ".", "/", ".", "/", "a">>
  /\ matched = FALSE

\* the number n with bit b (0 is the lowest) changed
FlipBit(n, b) == IF (n \div (2 ^ b)) % 2 = 1 THEN n - 2 ^ b ELSE n + 2 ^ b

\* the plaintext under the ciphertext is the payload as encryptPayload pads it
HoldsSealedPayload ==
  cipher.text = Stringify(payload) \o Separator \o padding

EmptyIncludeList == config.encryptDecryptForEndpoints = Some(<<>>)

\* C34: an empty include list never matches: matchesPattern(url, [], skip) is
\* false for every url and skip list; and a configured empty include list stays
\* empty (only an absent list becomes ['*']), so with it no request is sealed or
\* given headers and no answer is opened.
C34_EmptyIncludeListMatchesNothing ==
  EmptyIncludeList =>
    /\ EncryptPatterns = <<>>
    /\ pc = "Uninitialized" =>
         \A u \in Urls \cup {UrlPlain, UrlPublic, KeyEndpoint} : \A sk \in SkipLists :
           ~matchesPattern(u, <<>>, sk)
    /\ pending = NoRequest /\ generated = 0 /\ used = {}
    /\ opening = NoOpening
    /\ forwarded # NoForward => ForwardedAsGiven
    /\ delivered # NoDelivery => DeliveredAsAnswered

C34_Witness ==
  /\ EmptyIncludeList
  /\ pc = "Ready"
  /\ delivered.url = UrlPlain
  /\ delivered.event.kind = "response"
  /\ delivered.event.keyHeader = "raw-key"
  /\ delivered.event.ivHeader = "raw-iv"
  /\ delivered.event.body = "sealed-object"
  /\ delivered.body = "sealed-object"
  /\ ~delivered.attempted

\* C35: a glob pattern 'P/*' matches a url only if the url contains 'P/', the
\* prefix followed by a path separator; a url that has P only as the start of a
\* longer segment is not matched.
C35_GlobNeedsSeparator ==
  (matchPhase = "returned" /\ Len(patterns) = 1 /\ skipPatterns = <<>>
     /\ patterns[1] # Star /\ EndsWith(patterns[1], SlashStar) /\ matched)
    => Includes(url, SliceEnd(patterns[1], 1))

\* C36: the skip/include rule holds on the response leg as on the request leg:
\* for a url that a skip pattern matches or that no include pattern matches, no
\* answer, successful or error, is opened or altered, even one with both
\* headers and a body, just as no request for it is sealed; a decryption is
\* only ever started for a url the rule admits.
C36_RuleAppliesToResponses ==
  /\ (delivered # NoDelivery /\ ~RuleMatches(delivered.url)) => DeliveredAsAnswered
  /\ (delivered # NoDelivery /\ delivered.attempted) => RuleMatches(delivered.url)
  /\ opening # NoOpening => RuleMatches(opening.url)
  /\ (forwarded # NoForward /\ ~RuleMatches(forwarded.url)) => ForwardedAsGiven

C36_Witness ==
  /\ config.skipEncryptDecryptForEndpoints = Some(<<UrlPublic>>)
  /\ config.enableEncryption = "true"
  /\ pc = "Ready"
  /\ delivered.url = UrlPublic
  /\ delivered.event.kind = "error"
  /\ delivered.event.keyHeader = "raw-key"
  /\ delivered.event.ivHeader = "raw-iv"
  /\ delivered.event.body = "sealed-object"
  /\ delivered.kind = "error"
  /\ delivered.body = "sealed-object"
  /\ ~delivered.attempted

\* C37: while no key is active (the lifecycle is not in Ready) a matching POST,
\* PUT or PATCH with an object body is forwarded exactly as given: original body,
\* original content type, no key or IV header.
C37_NoKeyRequestUnchanged ==
  ( /\ forwarded # NoForward
    /\ config.enableEncryption # "false"
    /\ forwarded.during # "Ready"
    /\ forwarded.given.method \in {"POST", "PUT", "PATCH"}
    /\ forwarded.given.body.kind = "object"
    /\ RuleMatches(forwarded.url)
    /\ ~IsKeyEndpoint(forwarded) )
  => ForwardedAsGiven

\* C38: the configured retry count is honoured for every value from 0 on: a
\* failing fetch is retried at most that many times, so with a count of 0 it is
\* attempted once and fails without a retry; 3 is used only when no count is
\* configured.
C38_ZeroRetriesHonoured ==
  config.publicKeyFetchRetries.defined =>
    /\ Len(delays) <= config.publicKeyFetchRetries.value
    /\ (pc = "Failed" /\ error = "fetch failed")
         => attempts = config.publicKeyFetchRetries.value + 1

====
